---- MODULE Spec2Model ----
(***************************************************************************)
(* The presentation bridge of Qisge: qisge.py (change ledger, proxies,     *)
(* update) and renderer.py (the file transport to the host).               *)
(*                                                                         *)
(* A Python dict is a TLA+ function; the __dict__ of a proxy and a ledger  *)
(* record are functions from attribute names to values; a ledger category  *)
(* keyed by object id is a function from ids to such records.              *)
(***************************************************************************)
EXTENDS Integers, Sequences, FiniteSets, TLC

VARIABLES
    \* qisge.py: the proxies the game holds (each one's __dict__), by kind, in
    \* construction order; texts[1] is the module's _print_buffer
    sprites, texts, sounds, camera,
    \* qisge.py: the fields of _engine
    image_changes, sprite_changes, camera_changes, text_changes,
    sound_changes, channel_changes,
    \* the value get_changes() returned to the update() in progress (<<>>: none)
    changes,
    \* renderer.py: the two exchange files, and update()'s position and locals
    sprite_txt, input_txt, pc, wait, queue, wbuf, wpos, raw_input, input,
    \* the game program's position (SpecSync only)
    gpc,
    \* history: the last operation, the writes not yet drained, the proxy
    \* created last (with its number of value-changing writes), the state a
    \* host rebuilds from the payloads, the number of update() calls, whether
    \* the update() in progress has slept, the payloads overwritten before
    \* the host read them, what the host read last
    lastOp, owed, fresh, host, frame, slept, lost, hostSeen,
    \* history of the update() in progress (or the last one): how often it
    \* opened sprite.txt for writing, how often it read input.txt, whether the
    \* host had written input.txt since the last clear when it read it
    nwrites, nreads, readFresh,
    \* whether the host wrote input.txt since _get_input last cleared it, and
    \* how the update() that ended last ended: "none" (it returned), "io" or
    \* "parse" (it raised that failure)
    inFresh, raised,
    \* qisge.py: the game's ImageList and SoundList (the filenames they hold)
    images, soundfiles,
    \* history: per registry and id, the filename of the event recorded last;
    \* per sprite, how often a write changed its x since the last drain
    latest, nchg,
    \* the sample programs: which one runs, and its flags running and paused
    prog, running, paused,
    \* history: the lines qisge.print was called with, in order
    printed

progvars == <<sprites, texts, sounds, camera, image_changes, sprite_changes,
              camera_changes, text_changes, sound_changes, channel_changes>>
callvars == <<nwrites, nreads, readFresh, inFresh, raised>>
syncvars == <<sprite_txt, input_txt, pc, wait, queue, wbuf, wpos, raw_input,
              input, frame, slept, lost, hostSeen, callvars>>
histvars == <<lastOp, owed, fresh, host>>
extvars == <<images, soundfiles, latest, nchg, prog, running, paused, printed>>
vars == <<progvars, changes, syncvars, gpc, histvars, extvars>>

\* ------------------------------------------------------------------ bounds
\* proxies the game constructs (all kinds together, the print buffer apart)
MaxProxies == 2
\* value-changing writes counted for the proxy created last
MaxChanges == 2
\* update() calls of one run of SpecSync
MaxFrames == 3
\* files a registry holds, and events pending in its ledger category
MaxAssets == 2
\* the lines the print buffer keeps (32 in qisge.py); print is called with
\* up to MaxLines + 2 lines in all
MaxLines == 3

\* the values the game writes to numeric attributes
Vals == {0, 5}

\* ------------------------------------------------------------ dictionaries
EmptyDict == <<>>

Put(d, k, v) == [n \in DOMAIN d \cup {k} |-> IF n = k THEN v ELSE d[n]]

Merge(d, r) == [n \in DOMAIN d \cup DOMAIN r |-> IF n \in DOMAIN r THEN r[n] ELSE d[n]]

DictLen(d) == Cardinality(DOMAIN d)

\* list(d.values()): the records of an id-keyed category. Every record holds
\* its own id, so no two are equal and the set loses only their order.
DictValues(d) == {d[k] : k \in DOMAIN d}

\* ------------------------------------------------------------ qisge.py
_val_change(key, value, dictionary) ==
    IF key \in DOMAIN dictionary THEN dictionary[key] # value ELSE TRUE

\* de-duplication against the record pending in this frame, not against the
\* stored value
Sprite__setattr__per_frame(st, name, val) ==
    LET pending == IF "sprite_id" \in DOMAIN st.obj /\ st.obj["sprite_id"] \in DOMAIN st.led
                   THEN st.led[st.obj["sprite_id"]] ELSE EmptyDict
    IN IF _val_change(name, val, pending)
       THEN [obj |-> Put(st.obj, name, val),
             led |-> IF name # "sprite_id"
                     THEN LET id == st.obj["sprite_id"]
                              led1 == IF id \in DOMAIN st.led
                                      THEN st.led ELSE Put(st.led, id, EmptyDict)
                          IN Put(led1, id, Put(Put(led1[id], "sprite_id", id), name, val))
                     ELSE st.led]
       ELSE st

\* the record is replaced by the field written last, not extended by it
Sprite__setattr__last_only(st, name, val) ==
    IF _val_change(name, val, st.obj)
    THEN [obj |-> Put(st.obj, name, val),
          led |-> IF name # "sprite_id"
                  THEN LET id == st.obj["sprite_id"]
                       IN Put(st.led, id, Put(Put(EmptyDict, "sprite_id", id), name, val))
                  ELSE st.led]
    ELSE st

\* the record gets the field but not the id
Sprite__setattr__no_id(st, name, val) ==
    IF _val_change(name, val, st.obj)
    THEN [obj |-> Put(st.obj, name, val),
          led |-> IF name # "sprite_id"
                  THEN LET id == st.obj["sprite_id"]
                           led1 == IF id \notin DOMAIN st.led
                                   THEN Put(st.led, id, EmptyDict) ELSE st.led
                       IN Put(led1, id, Put(led1[id], name, val))
                  ELSE st.led]
    ELSE st

\* __setattr__ works on a proxy's __dict__ (obj) and its ledger category (led)
Sprite__setattr__(st, name, val) ==
    IF _val_change(name, val, st.obj)
    THEN [obj |-> Put(st.obj, name, val),
          led |-> IF name # "sprite_id"
                  THEN LET id == st.obj["sprite_id"]
                           led1 == IF id \notin DOMAIN st.led
                                   THEN Put(st.led, id, EmptyDict) ELSE st.led
                       IN Put(led1, id, Put(Put(led1[id], "sprite_id", id), name, val))
                  ELSE st.led]
    ELSE st

\* the constructor records only image_id and the fields that differ from
\* their defaults
Sprite__init__defaults_unrecorded(led, image_id, x, y, z, size, angle, flip_h, flip_v) ==
    LET s0 == Sprite__setattr__([obj |-> EmptyDict, led |-> led], "sprite_id", DictLen(led))
        s1 == [s0 EXCEPT !.led = Put(s0.led, s0.obj["sprite_id"], EmptyDict)]
        s2 == Sprite__setattr__(s1, "image_id", image_id)
        s3 == Sprite__setattr__(s2, "x", x)
        s4 == Sprite__setattr__(s3, "y", y)
        s5 == Sprite__setattr__(s4, "z", z)
        s6 == Sprite__setattr__(s5, "flip_h", flip_h)
        s7 == Sprite__setattr__(s6, "flip_v", flip_v)
        s8 == Sprite__setattr__(s7, "size", size)
        s9 == Sprite__setattr__(s8, "angle", angle)
        id == s9.obj["sprite_id"]
        dflt == [x |-> 0, y |-> 0, z |-> 0, size |-> 1, angle |-> 0, flip_h |-> 0, flip_v |-> 0]
        rec == s9.led[id]
    IN [s9 EXCEPT !.led = Put(s9.led, id,
            [n \in {k \in DOMAIN rec : k \notin DOMAIN dflt \/ rec[k] # dflt[k]} |-> rec[n]])]

Sprite__init__(led, image_id, x, y, z, size, angle, flip_h, flip_v) ==
    LET s0 == Sprite__setattr__([obj |-> EmptyDict, led |-> led], "sprite_id", DictLen(led))
        s1 == [s0 EXCEPT !.led = Put(s0.led, s0.obj["sprite_id"], EmptyDict)]
        s2 == Sprite__setattr__(s1, "image_id", image_id)
        s3 == Sprite__setattr__(s2, "x", x)
        s4 == Sprite__setattr__(s3, "y", y)
        s5 == Sprite__setattr__(s4, "z", z)
        s6 == Sprite__setattr__(s5, "flip_h", flip_h)
        s7 == Sprite__setattr__(s6, "flip_v", flip_v)
        s8 == Sprite__setattr__(s7, "size", size)
    IN Sprite__setattr__(s8, "angle", angle)

Sound__setattr__(st, name, val) ==
    IF _val_change(name, val, st.obj)
    THEN [obj |-> Put(st.obj, name, val),
          led |-> IF name # "channel_id"
                  THEN LET id == st.obj["channel_id"]
                           led1 == IF id \notin DOMAIN st.led
                                   THEN Put(st.led, id, EmptyDict) ELSE st.led
                       IN Put(led1, id, Put(Put(led1[id], "channel_id", id), name, val))
                  ELSE st.led]
    ELSE st

Sound__init__(led, sound_id, playmode, volume, pitch, note) ==
    LET s0 == Sound__setattr__([obj |-> EmptyDict, led |-> led], "channel_id", DictLen(led))
        s1 == [s0 EXCEPT !.led = Put(s0.led, s0.obj["channel_id"], EmptyDict)]
        s2 == Sound__setattr__(s1, "sound_id", sound_id)
        s3 == Sound__setattr__(s2, "playmode", playmode)
        s4 == Sound__setattr__(s3, "volume", volume)
        s5 == Sound__setattr__(s4, "pitch", pitch)
    IN Sound__setattr__(s5, "note", note)

\* name[1::] of the names that start with an underscore
LedgerName(name) ==
    CASE name = "_font_color" -> "font_color"
      [] name = "_background_color" -> "background_color"
      [] name = "_border_color" -> "border_color"
      [] OTHER -> name

Text__setattr__(st, name, val) ==
    IF _val_change(name, val, st.obj)
    THEN [obj |-> Put(st.obj, name, val),
          led |-> IF name # "text_id"
                  THEN LET id == st.obj["text_id"]
                           led1 == IF id \notin DOMAIN st.led
                                   THEN Put(st.led, id, EmptyDict) ELSE st.led
                       IN Put(led1, id,
                              Put(Put(led1[id], "text_id", id), LedgerName(name), val))
                  ELSE st.led]
    ELSE st

Color(r, g, b, a) == [r |-> r, g |-> g, b |-> b, a |-> a]

Text__init__(led, text, width, height, x, y, font_size, font, angle, font_color, background_color, border_color) ==
    LET s0 == Text__setattr__([obj |-> EmptyDict, led |-> led], "text_id", DictLen(led))
        s1 == [s0 EXCEPT !.led = Put(s0.led, s0.obj["text_id"], EmptyDict)]
        s2 == Text__setattr__(s1, "text", text)
        s3 == Text__setattr__(s2, "x", x)
        s4 == Text__setattr__(s3, "y", y)
        s5 == Text__setattr__(s4, "font_size", font_size)
        s6 == Text__setattr__(s5, "font", font)
        s7 == Text__setattr__(s6, "width", width)
        s8 == Text__setattr__(s7, "height", height)
        s9 == Text__setattr__(s8, "angle", angle)
        s10 == Text__setattr__(s9, "_font_color", font_color)
        s11 == Text__setattr__(s10, "_background_color", background_color)
    IN Text__setattr__(s11, "_border_color", border_color)

_rgb2col(rgb) ==
    [r |-> rgb[1], g |-> rgb[2], b |-> rgb[3],
     a |-> IF Len(rgb) >= 4 THEN rgb[4] ELSE 255]

set_background_color(st, rgb) == Text__setattr__(st, "_background_color", _rgb2col(rgb))

set_font_color(st, rgb) == Text__setattr__(st, "_font_color", _rgb2col(rgb))

set_border_color(st, rgb) == Text__setattr__(st, "_border_color", _rgb2col(rgb))

\* a str without a line break, as the list of its lines (str.split('\n')):
\* the empty str is one empty line
Str(line) == <<line>>

\* a + '\n' + b
JoinLines(a, b) == a \o b

\* '\n'.join(text.split('\n')[-n::])
LastLines(text, n) ==
    IF Len(text) <= n THEN text ELSE SubSeq(text, Len(text) - n + 1, Len(text))

show_print(st) ==
    set_border_color(
        set_background_color(set_font_color(st, <<0, 0, 0, 128>>), <<255, 255, 255, 128>>),
        <<255, 255, 255, 0>>)

\* qisge.print, for a text that is a str
qisge_print(st, text) ==
    show_print(Text__setattr__(st, "text",
                               LastLines(JoinLines(st.obj["text"], text), MaxLines)))

hide_print(st) ==
    set_border_color(
        set_background_color(set_font_color(st, <<0, 0, 0, 0>>), <<255, 255, 255, 0>>),
        <<255, 255, 255, 0>>)

\* Camera.__setattr__ on the camera's __dict__ (obj) and camera_changes (led)
Camera__setattr__(st, name, val) ==
    [obj |-> Put(st.obj, name, val),
     led |-> IF _val_change(name, val, st.obj) THEN Put(st.led, name, val) ELSE st.led]

Camera__init__(led, x, y, z, size, angle) ==
    LET s1 == Camera__setattr__([obj |-> EmptyDict, led |-> led], "x", x)
        s2 == Camera__setattr__(s1, "y", y)
        s3 == Camera__setattr__(s2, "size", size)
    IN Camera__setattr__(s3, "angle", angle)

\* the dictionary get_changes() builds from the fields of _engine
ChangesDict ==
    [image_changes |-> image_changes,
     sprite_changes |-> DictValues(sprite_changes),
     camera_changes |-> camera_changes,
     text_changes |-> DictValues(text_changes),
     sound_changes |-> sound_changes,
     channel_changes |-> DictValues(channel_changes)]

\* a piece of a text that is no dictionary: a character
Piece(c) == [chr |-> c]

\* json.dumps of a dictionary: a text that opens with a brace, holds the
\* members and closes with a brace; it is never the empty text
json_dumps(d) == <<Piece("{"), d, Piece("}")>>

\* the members of a text json_dumps wrote
json_body(s) == s[2]

\* ---------------------------------------------- json.dumps, value by value
\* the text json.dumps writes, as its syntax tree: a number, a string, an
\* array of values, or an object, which is a list of members in the order
\* they were written
JNum(n) == [num |-> n]

JStr(str) == [str |-> str]

JArr(items) == [arr |-> items]

JObj(members) == [obj |-> members]

Member(k, v) == [k |-> k, v |-> v]

\* the two orders the members of a dictionary are written in
Orders == {"fwd", "rev"}

RECURSIVE SetToSeq(_)
SetToSeq(S) ==
    IF S = {} THEN <<>>
    ELSE LET x == CHOOSE y \in S : TRUE IN <<x>> \o SetToSeq(S \ {x})

Reverse(seq) == [i \in 1..Len(seq) |-> seq[Len(seq) + 1 - i]]

Order(S, ord) == IF ord = "fwd" THEN SetToSeq(S) ELSE Reverse(SetToSeq(S))

\* the fields of the ledger that hold a string, and those that hold a colour
StrNames == {"text", "filename"}

ColorNames == {"font_color", "background_color", "border_color"}

JColor(col, ord) ==
    LET ks == Order(DOMAIN col, ord)
    IN JObj([i \in 1..Len(ks) |-> Member(ks[i], JNum(col[ks[i]]))])

JValue(name, val, ord) ==
    IF name \in StrNames THEN JStr(val)
    ELSE IF name \in ColorNames THEN JColor(val, ord)
    ELSE JNum(val)

\* a record written without the member that holds its id
JRecord_without_id(rec, ord) ==
    LET ks == Order(DOMAIN rec \ {"sprite_id", "text_id", "channel_id"}, ord)
    IN JObj([i \in 1..Len(ks) |-> Member(ks[i], JValue(ks[i], rec[ks[i]], ord))])

\* a dictionary of fields becomes an object with one member per key
JRecord(rec, ord) ==
    LET ks == Order(DOMAIN rec, ord)
    IN JObj([i \in 1..Len(ks) |-> Member(ks[i], JValue(ks[i], rec[ks[i]], ord))])

\* list(dict.values()): the records of a category, without their keys
JRecords(recs, ord) ==
    LET rs == Order(recs, ord)
    IN JArr([i \in 1..Len(rs) |-> JRecord(rs[i], ord)])

\* a list of events keeps its order
JEvents(evs, ord) == JArr([i \in 1..Len(evs) |-> JRecord(evs[i], ord)])

json_encode(d, ord) ==
    LET ks == Order(DOMAIN d, ord)
    IN JObj([i \in 1..Len(ks) |->
              Member(ks[i],
                     IF ks[i] \in {"image_changes", "sound_changes"}
                     THEN JEvents(d[ks[i]], ord)
                     ELSE IF ks[i] = "camera_changes" THEN JRecord(d[ks[i]], ord)
                     ELSE JRecords(d[ks[i]], ord))])

\* json.loads on the host's side: numbers and strings as they are, an
\* array as a list, an object as a dictionary in which the last member of
\* a name wins
RECURSIVE json_decode(_)
json_decode(j) ==
    IF "num" \in DOMAIN j THEN j.num
    ELSE IF "str" \in DOMAIN j THEN j.str
    ELSE IF "arr" \in DOMAIN j
         THEN [i \in 1..Len(j.arr) |-> json_decode(j.arr[i])]
         ELSE LET m == j.obj
              IN [k \in {m[i].k : i \in 1..Len(m)} |->
                    json_decode(m[CHOOSE i \in 1..Len(m) :
                                    /\ m[i].k = k
                                    /\ \A i2 \in 1..Len(m) : m[i2].k = k => i2 <= i].v)]

\* the host files the records of a category under the id each one carries
ById(recs, idkey) ==
    LET with == {i \in 1..Len(recs) : idkey \in DOMAIN recs[i]}
    IN [id \in {recs[i][idkey] : i \in with} |->
          recs[CHOOSE i \in with :
                 /\ recs[i][idkey] = id
                 /\ \A i2 \in with : recs[i2][idkey] = id => i2 <= i]]

\* get_changes with camera_changes left out of the reset
get_changes_keep_camera ==
    /\ changes' = json_dumps(ChangesDict)
    /\ image_changes' = <<>>
    /\ sound_changes' = <<>>
    /\ sprite_changes' = EmptyDict
    /\ text_changes' = EmptyDict
    /\ channel_changes' = EmptyDict
    /\ UNCHANGED camera_changes

get_changes ==
    /\ changes' = json_dumps(ChangesDict)
    /\ image_changes' = <<>>
    /\ sound_changes' = <<>>
    /\ sprite_changes' = EmptyDict
    /\ text_changes' = EmptyDict
    /\ channel_changes' = EmptyDict
    /\ camera_changes' = EmptyDict

\* the default with a key press in it
NoInput_with_key == [key_presses |-> <<0>>, clicks |-> <<>>]

\* renderer.py: the input _get_input returns for an empty input.txt
NoInput == [key_presses |-> <<>>, clicks |-> <<>>]

\* ------------------------------------------------- module initialisation
InitCamera == Camera__init__(EmptyDict, 0, 0, 0, 8, 0)

InitPrintBuffer ==
    hide_print(Text__init__(EmptyDict, Str(""), 28, 16, 0, 15, 0, 0, 0,
                            Color(0, 0, 0, 255), Color(255, 255, 255, 255),
                            Color(0, 0, 0, 255)))

\* ------------------------------------------------------------- history
NoFresh == [kind |-> "none", idx |-> 0, m |-> 0]

Op(op, fr, ow) == [op |-> op, fresh |-> fr, owed |-> ow]

Drains == {"drain", "drain_again"}

\* a proxy was constructed: every attribute it stores was written
HistNew(kind, idx, obj, idkey) ==
    /\ lastOp' = Op("write", NoFresh, {})
    /\ owed' = owed \cup {<<kind, idx, n>> : n \in DOMAIN obj \ {idkey}}
    /\ fresh' = [kind |-> kind, idx |-> idx, m |-> 0]

\* an attribute was written; changed: the value differs from the stored one
HistSet(kind, idx, name, changed) ==
    /\ lastOp' = Op(IF changed THEN "write" ELSE "noop", NoFresh, {})
    /\ owed' = IF changed THEN owed \cup {<<kind, idx, name>>} ELSE owed
    /\ fresh' = IF fresh.kind = kind /\ fresh.idx = idx
                THEN IF ~changed THEN fresh
                     ELSE IF fresh.m < MaxChanges
                          THEN [fresh EXCEPT !.m = fresh.m + 1] ELSE NoFresh
                ELSE NoFresh

\* the host: it applies a payload by overwriting, per kind and id, the fields
\* the payload lists
ApplyKind(hk, recs, idkey) ==
    [id \in DOMAIN hk \cup {r[idkey] : r \in recs} |->
        IF \E r \in recs : r[idkey] = id
        THEN Merge(IF id \in DOMAIN hk THEN hk[id] ELSE EmptyDict,
                   CHOOSE r \in recs : r[idkey] = id)
        ELSE hk[id]]

HostApply(h, c) ==
    [sprite |-> ApplyKind(h.sprite, c.sprite_changes, "sprite_id"),
     text |-> ApplyKind(h.text, c.text_changes, "text_id"),
     channel |-> ApplyKind(h.channel, c.channel_changes, "channel_id"),
     camera |-> Merge(h.camera, c.camera_changes)]

HistDrain ==
    /\ lastOp' = Op(IF lastOp.op \in Drains THEN "drain_again" ELSE "drain", fresh, owed)
    /\ owed' = {}
    /\ fresh' = NoFresh

\* ------------------------------------------------------------ the game
NProxies == Len(sprites) + (Len(texts) - 1) + Len(sounds)

NewSprite(x) ==
    /\ NProxies < MaxProxies
    /\ LET st == Sprite__init__(sprite_changes, 0, x, 0, 0, 1, 0, 0, 0)
       IN /\ sprites' = Append(sprites, st.obj)
          /\ sprite_changes' = st.led
          /\ HistNew("sprite", Len(sprites) + 1, st.obj, "sprite_id")
    /\ changes' = <<>>
    /\ UNCHANGED <<texts, sounds, camera, image_changes, camera_changes,
                   text_changes, sound_changes, channel_changes>>

SetSprite(i, name, val) ==
    /\ LET st == Sprite__setattr__([obj |-> sprites[i], led |-> sprite_changes], name, val)
       IN /\ sprites' = [sprites EXCEPT ![i] = st.obj]
          /\ sprite_changes' = st.led
    /\ HistSet("sprite", i, name, sprites[i][name] # val)
    /\ changes' = <<>>
    /\ UNCHANGED <<texts, sounds, camera, image_changes, camera_changes,
                   text_changes, sound_changes, channel_changes>>

NewText(x) ==
    /\ NProxies < MaxProxies
    /\ LET st == Text__init__(text_changes, Str("a"), 2, 1, x, 0, 0, 0, 0,
                              Color(0, 0, 0, 255), Color(255, 255, 255, 255),
                              Color(0, 0, 0, 255))
       IN /\ texts' = Append(texts, st.obj)
          /\ text_changes' = st.led
          /\ HistNew("text", Len(texts) + 1, st.obj, "text_id")
    /\ changes' = <<>>
    /\ UNCHANGED <<sprites, sounds, camera, image_changes, sprite_changes,
                   camera_changes, sound_changes, channel_changes>>

SetBackgroundColor(i, rgb) ==
    /\ LET st == set_background_color([obj |-> texts[i], led |-> text_changes], rgb)
       IN /\ texts' = [texts EXCEPT ![i] = st.obj]
          /\ text_changes' = st.led
    /\ HistSet("text", i, "_background_color", texts[i]["_background_color"] # _rgb2col(rgb))
    /\ changes' = <<>>
    /\ UNCHANGED <<sprites, sounds, camera, image_changes, sprite_changes,
                   camera_changes, sound_changes, channel_changes>>

NewSound ==
    /\ NProxies < MaxProxies
    /\ LET st == Sound__init__(channel_changes, 0, 0, 1, 1, 0)
       IN /\ sounds' = Append(sounds, st.obj)
          /\ channel_changes' = st.led
          /\ HistNew("channel", Len(sounds) + 1, st.obj, "channel_id")
    /\ changes' = <<>>
    /\ UNCHANGED <<sprites, texts, camera, image_changes, sprite_changes,
                   camera_changes, text_changes, sound_changes>>

SetSound(i, name, val) ==
    /\ LET st == Sound__setattr__([obj |-> sounds[i], led |-> channel_changes], name, val)
       IN /\ sounds' = [sounds EXCEPT ![i] = st.obj]
          /\ channel_changes' = st.led
    /\ HistSet("channel", i, name, sounds[i][name] # val)
    /\ changes' = <<>>
    /\ UNCHANGED <<sprites, texts, camera, image_changes, sprite_changes,
                   camera_changes, text_changes, sound_changes>>

SetCamera(name, val) ==
    /\ LET st == Camera__setattr__([obj |-> camera, led |-> camera_changes], name, val)
       IN /\ camera' = st.obj
          /\ camera_changes' = st.led
    /\ HistSet("camera", 0, name, camera[name] # val)
    /\ changes' = <<>>
    /\ UNCHANGED <<sprites, texts, sounds, image_changes, sprite_changes,
                   text_changes, sound_changes, channel_changes>>

\* _engine.get_changes(), called by the game (or by update())
Drain ==
    /\ get_changes
    /\ HistDrain
    /\ UNCHANGED <<sprites, texts, sounds, camera>>

\* ------------------------------------------------------ specification
InitEngine ==
    /\ sprites = <<>>
    /\ sounds = <<>>
    /\ camera = InitCamera.obj
    /\ camera_changes = InitCamera.led
    /\ texts = <<InitPrintBuffer.obj>>
    /\ text_changes = InitPrintBuffer.led
    /\ image_changes = <<>>
    /\ sound_changes = <<>>
    /\ sprite_changes = EmptyDict
    /\ channel_changes = EmptyDict
    /\ changes = <<>>

InitHist ==
    /\ lastOp = Op("init", NoFresh, {})
    /\ owed = {<<"camera", 0, n>> : n \in DOMAIN InitCamera.obj}
              \cup {<<"text", 1, n>> : n \in DOMAIN InitPrintBuffer.obj \ {"text_id"}}
    /\ fresh = NoFresh
    /\ host = [sprite |-> EmptyDict, text |-> EmptyDict, channel |-> EmptyDict,
               camera |-> EmptyDict]

\* renderer.py is imported first: _scrub() empties both files
InitSync ==
    /\ sprite_txt = <<>>
    /\ input_txt = <<>>
    /\ pc = "idle"
    /\ wait = TRUE
    /\ queue = <<>>
    /\ wbuf = <<>>
    /\ wpos = 0
    /\ raw_input = <<>>
    /\ input = NoInput
    /\ gpc = 0
    /\ frame = 0
    /\ slept = FALSE
    /\ lost = {}
    /\ hostSeen = <<>>
    /\ nwrites = 0
    /\ nreads = 0
    /\ readFresh = FALSE
    /\ inFresh = FALSE
    /\ raised = "none"

\* no registry holds a file yet
InitAssets ==
    /\ images = <<>>
    /\ soundfiles = <<>>
    /\ latest = [image |-> EmptyDict, sound |-> EmptyDict]

\* none of the sample programs runs
InitNoLoop ==
    /\ prog = "none"
    /\ running = TRUE
    /\ paused = FALSE

Init == InitEngine /\ InitHist /\ InitSync /\ InitAssets /\ InitNoLoop /\ nchg = <<>> /\ printed = <<>>

\* the game alone: no update() runs, the host does nothing
NoSync == UNCHANGED <<syncvars, gpc, host, extvars>>

Next ==
    \/ \E x \in Vals : NewSprite(x) /\ NoSync
    \/ \E i \in 1..Len(sprites), val \in Vals : SetSprite(i, "x", val) /\ NoSync
    \/ NewText(0) /\ NoSync
    \/ \E i \in 2..Len(texts) : SetBackgroundColor(i, <<0, 128, 255>>) /\ NoSync
    \/ NewSound /\ NoSync
    \/ \E i \in 1..Len(sounds), val \in Vals : SetSound(i, "volume", val) /\ NoSync
    \/ \E val \in Vals : SetCamera("x", val) /\ NoSync
    \/ Drain /\ NoSync

Spec == Init /\ [][Next]_vars

\* ------------------------------------------------- ImageList, SoundList
\* the filenames the game registers
Files == {"a", "b"}

\* list indexing: lst[i] is defined for -len(lst) <= i < len(lst), and a
\* negative i counts from the end; the position (from 1) that i denotes
ListPos(lst, i) == IF i >= 0 THEN i + 1 ELSE Len(lst) + i + 1

ListHas(lst, i) == i >= -Len(lst) /\ i < Len(lst)

\* the indices the game assigns to
Indices(lst) == (0 - Len(lst)) .. Len(lst)

ImageList_record(led, image_id, filename) ==
    Append(led, [image_id |-> image_id, filename |-> filename])

SoundList_record(led, sound_id, filename) ==
    Append(led, [sound_id |-> sound_id, filename |-> filename])

\* history of a registry operation
HistAsset(op, kind, id, filename) ==
    /\ lastOp' = Op(op, NoFresh, {})
    /\ latest' = [latest EXCEPT ![kind] = Put(latest[kind], id, filename)]
    /\ UNCHANGED <<owed, fresh, host>>

\* the registries leave the proxies, the files and the programs alone
AssetFrame ==
    /\ changes' = <<>>
    /\ UNCHANGED <<sprites, texts, sounds, camera, sprite_changes, camera_changes,
                   text_changes, channel_changes>>
    /\ UNCHANGED <<syncvars, gpc, nchg, prog, running, paused, printed>>

\* ImageList.append: image_id = len(self)
ImageList_append(filename) ==
    /\ Len(images) < MaxAssets /\ Len(image_changes) < MaxAssets
    /\ images' = Append(images, filename)
    /\ image_changes' = ImageList_record(image_changes, Len(images), filename)
    /\ HistAsset("append", "image", Len(images), filename)
    /\ AssetFrame
    /\ UNCHANGED <<soundfiles, sound_changes>>

\* ImageList.__setitem__: list.__setitem__ raises IndexError for an index
\* out of range, before anything is recorded
ImageList__setitem__(image_id, filename) ==
    /\ Len(image_changes) < MaxAssets
    /\ IF ListHas(images, image_id)
       THEN /\ images' = [images EXCEPT ![ListPos(images, image_id)] = filename]
            /\ image_changes' = ImageList_record(image_changes, image_id, filename)
            /\ HistAsset("setitem", "image", image_id, filename)
       ELSE /\ UNCHANGED <<images, image_changes, latest, owed, fresh, host>>
            /\ lastOp' = Op("raise", NoFresh, {})
    /\ AssetFrame
    /\ UNCHANGED <<soundfiles, sound_changes>>

\* SoundList.append: sound_id = len(self)
SoundList_append(filename) ==
    /\ Len(soundfiles) < MaxAssets /\ Len(sound_changes) < MaxAssets
    /\ soundfiles' = Append(soundfiles, filename)
    /\ sound_changes' = SoundList_record(sound_changes, Len(soundfiles), filename)
    /\ HistAsset("append", "sound", Len(soundfiles), filename)
    /\ AssetFrame
    /\ UNCHANGED <<images, image_changes>>

SoundList__setitem__(sound_id, filename) ==
    /\ Len(sound_changes) < MaxAssets
    /\ IF ListHas(soundfiles, sound_id)
       THEN /\ soundfiles' = [soundfiles EXCEPT ![ListPos(soundfiles, sound_id)] = filename]
            /\ sound_changes' = SoundList_record(sound_changes, sound_id, filename)
            /\ HistAsset("setitem", "sound", sound_id, filename)
       ELSE /\ UNCHANGED <<soundfiles, sound_changes, latest, owed, fresh, host>>
            /\ lastOp' = Op("raise", NoFresh, {})
    /\ AssetFrame
    /\ UNCHANGED <<images, image_changes>>

\* two programs: one works on an ImageList, the other on a SoundList, both
\* made from an empty list of filenames
InitRegistry ==
    /\ prog \in {"images", "sounds"}
    /\ running = TRUE
    /\ paused = FALSE

NextAssets ==
    \/ \E f \in Files : prog = "images" /\ ImageList_append(f)
    \/ \E i \in Indices(images), f \in Files : prog = "images" /\ ImageList__setitem__(i, f)
    \/ \E f \in Files : prog = "sounds" /\ SoundList_append(f)
    \/ \E i \in Indices(soundfiles), f \in Files : prog = "sounds" /\ SoundList__setitem__(i, f)
    \/ Drain /\ NoSync

InitOfAssets ==
    /\ InitEngine /\ InitHist /\ InitSync /\ InitAssets /\ InitRegistry
    /\ nchg = <<>> /\ printed = <<>>

SpecAssets == InitOfAssets /\ [][NextAssets]_vars

\* ------------------------------------------------- several writes to x
\* history per sprite: n, the writes that changed its x since the last
\* drain (the constructor's is one); was, the x it stored at the last drain
\* (-1: it did not exist); sent and prev, what n and was were at that drain
NoX == -1

CoNewSprite(x) ==
    /\ NewSprite(x)
    /\ nchg' = Append(nchg, [n |-> 1, was |-> NoX, sent |-> 0, prev |-> NoX])
    /\ UNCHANGED <<syncvars, gpc, host, images, soundfiles, latest, prog, running, paused, printed>>

CoSetX(i, val) ==
    /\ sprites[i]["x"] # val => nchg[i].n < MaxChanges
    /\ SetSprite(i, "x", val)
    /\ nchg' = [nchg EXCEPT ![i].n = IF sprites[i]["x"] # val THEN @ + 1 ELSE @]
    /\ UNCHANGED <<syncvars, gpc, host, images, soundfiles, latest, prog, running, paused, printed>>

CoDrain ==
    /\ Drain
    /\ nchg' = [i \in 1..Len(nchg) |->
                  [n |-> 0, was |-> sprites[i]["x"], sent |-> nchg[i].n, prev |-> nchg[i].was]]
    /\ UNCHANGED <<syncvars, gpc, host, images, soundfiles, latest, prog, running, paused, printed>>

NextCoalesce ==
    \/ \E x \in Vals : CoNewSprite(x)
    \/ \E i \in 1..Len(sprites), val \in Vals : CoSetX(i, val)
    \/ CoDrain

SpecCoalesce == Init /\ [][NextCoalesce]_vars

\* ------------------------------------------------- the print buffer
\* the texts the game prints: one line, and two lines in one str
PrintTexts == {<<"a">>, <<"b">>, <<"a", "b">>}

\* the game calls a function that works on _print_buffer (texts[1])
PrintBufferOp(op, st) ==
    /\ texts' = [texts EXCEPT ![1] = st.obj]
    /\ text_changes' = st.led
    /\ lastOp' = Op(op, NoFresh, {})
    /\ owed' = owed \cup {<<"text", 1, n>> : n \in {k \in DOMAIN st.obj : st.obj[k] # texts[1][k]}}
    /\ fresh' = NoFresh
    /\ changes' = <<>>
    /\ UNCHANGED <<sprites, sounds, camera, image_changes, sprite_changes,
                   camera_changes, sound_changes, channel_changes>>
    /\ UNCHANGED <<syncvars, gpc, host, images, soundfiles, latest, nchg, prog,
                   running, paused>>

PrintCall(text) ==
    /\ Len(printed) + Len(text) <= MaxLines + 2
    /\ PrintBufferOp("print", qisge_print([obj |-> texts[1], led |-> text_changes], text))
    /\ printed' = printed \o text

ShowPrint ==
    /\ PrintBufferOp("show_print", show_print([obj |-> texts[1], led |-> text_changes]))
    /\ UNCHANGED printed

HidePrint ==
    /\ PrintBufferOp("hide_print", hide_print([obj |-> texts[1], led |-> text_changes]))
    /\ UNCHANGED printed

NextPrint ==
    \/ \E text \in PrintTexts : PrintCall(text)
    \/ ShowPrint
    \/ HidePrint
    \/ Drain /\ NoSync

SpecPrint == Init /\ [][NextPrint]_vars

\* ------------------------------------------------- the sample programs
\* run.py and Data/game/game.py: the set-up, the first update() and the
\* loop `while running`. Positions are counted in steps (dy, sy), update()
\* is one step here (the ledger is drained, an input snapshot comes back),
\* and of the sprites of game.py only the player's is kept: the tiles play
\* no part in what the keys do. gpc: 10 at the start, 11 before the first
\* update(), 12 at the loop test, 13 before the loop's update(), 14 after
\* the loop.
Progs == {"run", "game"}

\* the key codes the host reports
LoopKeys == {0, 6, 7}

LoopInputs == {[key_presses |-> SetToSeq(K), clicks |-> <<>>] : K \in SUBSET LoopKeys}

\* k in input['key_presses']
Has(seq, k) == \E i \in 1..Len(seq) : seq[i] = k

\* run.py with a test for key 7 in the place of the test for key 6
RunQuits_on_7(keys) == Has(keys, 7)

\* run.py: `if 6 in input['key_presses']: running = False`
RunQuits(keys) == Has(keys, 6)

\* game.py: `if 7 in input['key_presses']: paused = not paused`
PauseKey == 7

\* attribute writes to one sprite, in order
RECURSIVE SpriteWrites(_, _)
SpriteWrites(st, ws) ==
    IF Len(ws) = 0 THEN st
    ELSE SpriteWrites(Sprite__setattr__(st, ws[1][1], ws[1][2]), Tail(ws))

\* run.py: key 0 moves the sprite up
RunBody(keys, s) ==
    IF Has(keys, 0) THEN <<<<"x", s["x"]>>, <<"y", s["y"] + 1>>>> ELSE <<>>

\* game.py, Player.update with direction [0,0] and no jump: the player
\* sits on the ground, or falls one step and glides one step unless the
\* map blocks the glide (the map is random)
PlayerUpdate(x, y, on_ground, blocked) ==
    <<<<"x", IF ~on_ground /\ ~blocked THEN x + 1 ELSE x>>,
      <<"y", IF on_ground THEN y ELSE y - 1>>,
      <<"z", 1>>,
      <<"image_id", IF on_ground THEN 4 ELSE 2>>>>

\* the fields of syncvars an update() taken as one step leaves alone
LoopSyncFrame ==
    UNCHANGED <<sprite_txt, input_txt, pc, wait, queue, wbuf, wpos, raw_input,
                slept, lost, hostSeen, callvars>>

LoopSetup ==
    /\ gpc = 10
    /\ images' = Append(images, "a")
    /\ image_changes' = ImageList_record(image_changes, Len(images), "a")
    /\ latest' = [latest EXCEPT !.image = Put(latest.image, Len(images), "a")]
    /\ \E on_ground, blocked \in BOOLEAN :
         LET s0 == Sprite__init__(sprite_changes, IF prog = "run" THEN 0 ELSE 1,
                                  0, 0, 0, 1, 0, 0, 0)
             st == IF prog = "game"
                   THEN SpriteWrites(s0, PlayerUpdate(7, 7, on_ground, blocked))
                   ELSE s0
         IN /\ sprites' = Append(sprites, st.obj)
            /\ sprite_changes' = st.led
            /\ HistNew("sprite", Len(sprites) + 1, st.obj, "sprite_id")
    /\ gpc' = 11
    /\ changes' = <<>>
    /\ UNCHANGED <<texts, sounds, camera, camera_changes, text_changes,
                   sound_changes, channel_changes>>
    /\ UNCHANGED <<syncvars, host, soundfiles, nchg, prog, running, paused, printed>>

\* input = qisge.update()
LoopUpdate ==
    /\ gpc \in {11, 13}
    /\ frame < MaxFrames
    /\ get_changes
    /\ HistDrain
    /\ input' \in LoopInputs
    /\ frame' = frame + 1
    /\ gpc' = 12
    /\ LoopSyncFrame
    /\ UNCHANGED <<sprites, texts, sounds, camera, host, extvars>>

\* one pass through the body of `while running`
LoopBody ==
    /\ gpc = 12
    /\ running
    /\ LET keys == input.key_presses
           s == sprites[1]
       IN /\ running' = IF prog = "run" /\ RunQuits(keys) THEN FALSE ELSE running
          /\ paused' = IF prog = "game" /\ Has(keys, PauseKey) THEN ~paused ELSE paused
          /\ \E on_ground, blocked \in BOOLEAN :
               LET ws == IF prog = "run" THEN RunBody(keys, s)
                         ELSE IF ~paused'
                              THEN PlayerUpdate(s["x"], s["y"], on_ground, blocked)
                              ELSE <<>>
                   st == SpriteWrites([obj |-> s, led |-> sprite_changes], ws)
               IN /\ sprites' = [sprites EXCEPT ![1] = st.obj]
                  /\ sprite_changes' = st.led
                  /\ lastOp' = Op(IF st.obj # s THEN "write" ELSE "noop", NoFresh, {})
                  /\ owed' = owed \cup {<<"sprite", 1, n>> : n \in {k \in DOMAIN s : st.obj[k] # s[k]}}
    /\ fresh' = NoFresh
    /\ gpc' = 13
    /\ changes' = <<>>
    /\ UNCHANGED <<texts, sounds, camera, image_changes, camera_changes,
                   text_changes, sound_changes, channel_changes>>
    /\ UNCHANGED <<syncvars, host, images, soundfiles, latest, nchg, prog, printed>>

\* the loop test fails: the program ends
LoopExit ==
    /\ gpc = 12
    /\ ~running
    /\ gpc' = 14
    /\ UNCHANGED <<progvars, changes, syncvars, histvars, extvars>>

InitLoop ==
    /\ prog \in Progs
    /\ running = TRUE
    /\ paused = FALSE

NextLoop ==
    \/ LoopSetup
    \/ LoopUpdate
    \/ LoopBody
    \/ LoopExit

InitOfLoop ==
    /\ InitEngine /\ InitHist /\ InitAssets /\ InitLoop /\ nchg = <<>> /\ printed = <<>>
    /\ sprite_txt = <<>> /\ input_txt = <<>> /\ pc = "idle" /\ wait = TRUE
    /\ queue = <<>> /\ wbuf = <<>> /\ wpos = 0 /\ raw_input = <<>>
    /\ input = NoInput /\ gpc = 10 /\ frame = 0 /\ slept = FALSE /\ lost = {}
    /\ hostSeen = <<>> /\ nwrites = 0 /\ nreads = 0 /\ readFresh = FALSE
    /\ inFresh = FALSE /\ raised = "none"

SpecLoop == InitOfLoop /\ [][NextLoop]_vars

\* the game writes to the id attribute of a proxy: __setattr__ with the name
\* sprite_id, text_id or channel_id
HistSetId ==
    /\ lastOp' = Op("write", NoFresh, {})
    /\ fresh' = NoFresh
    /\ UNCHANGED owed

SetSpriteId(i, val) ==
    /\ LET st == Sprite__setattr__([obj |-> sprites[i], led |-> sprite_changes], "sprite_id", val)
       IN /\ sprites' = [sprites EXCEPT ![i] = st.obj]
          /\ sprite_changes' = st.led
    /\ HistSetId
    /\ changes' = <<>>
    /\ UNCHANGED <<texts, sounds, camera, image_changes, camera_changes,
                   text_changes, sound_changes, channel_changes>>

SetTextId(i, val) ==
    /\ LET st == Text__setattr__([obj |-> texts[i], led |-> text_changes], "text_id", val)
       IN /\ texts' = [texts EXCEPT ![i] = st.obj]
          /\ text_changes' = st.led
    /\ HistSetId
    /\ changes' = <<>>
    /\ UNCHANGED <<sprites, sounds, camera, image_changes, sprite_changes,
                   camera_changes, sound_changes, channel_changes>>

SetSoundId(i, val) ==
    /\ LET st == Sound__setattr__([obj |-> sounds[i], led |-> channel_changes], "channel_id", val)
       IN /\ sounds' = [sounds EXCEPT ![i] = st.obj]
          /\ channel_changes' = st.led
    /\ HistSetId
    /\ changes' = <<>>
    /\ UNCHANGED <<sprites, texts, camera, image_changes, sprite_changes,
                   camera_changes, text_changes, sound_changes>>

\* the ids the game writes
IdVals == {0, 1}

\* the game of Spec without the camera, each field written with one value,
\* and with writes to the id attributes
NextIds ==
    \/ NewSprite(0) /\ NoSync
    \/ \E i \in 1..Len(sprites) : SetSprite(i, "x", 5) /\ NoSync
    \/ \E i \in 1..Len(sprites), val \in IdVals : SetSpriteId(i, val) /\ NoSync
    \/ NewText(0) /\ NoSync
    \/ \E i \in 2..Len(texts) : SetBackgroundColor(i, <<0, 128, 255>>) /\ NoSync
    \/ \E i \in 2..Len(texts), val \in IdVals : SetTextId(i, val) /\ NoSync
    \/ NewSound /\ NoSync
    \/ \E i \in 1..Len(sounds) : SetSound(i, "volume", 5) /\ NoSync
    \/ \E i \in 1..Len(sounds), val \in IdVals : SetSoundId(i, val) /\ NoSync
    \/ Drain /\ NoSync

SpecIds == Init /\ [][NextIds]_vars

\* the host follows the game: it applies every payload a drain returns
HostStep ==
    IF changes' # <<>> THEN host' = HostApply(host, json_body(changes'))
    ELSE UNCHANGED host

HostFollows == HostStep /\ UNCHANGED <<syncvars, gpc, extvars>>

NextHost ==
    \/ \E x \in Vals : NewSprite(x) /\ HostFollows
    \/ \E i \in 1..Len(sprites), name \in {"x", "y"}, val \in Vals :
           SetSprite(i, name, val) /\ HostFollows
    \/ Drain /\ HostFollows

SpecHost == Init /\ [][NextHost]_vars

\* ------------------------------------------------------------ renderer.py
\* A file holds a text, a sequence of pieces; <<>> is the empty file.
\* a byte of a file that was never written (the file was cut under the writer)
Hole == Piece("\\0")

\* the text of a file after `pieces` are written at offset pos
WriteAt(text, pos, pieces) ==
    [i \in 1..(IF Len(text) > pos + Len(pieces) THEN Len(text) ELSE pos + Len(pieces)) |->
        IF i > pos /\ i <= pos + Len(pieces) THEN pieces[i - pos]
        ELSE IF i <= Len(text) THEN text[i] ELSE Hole]

\* a text json.loads accepts: one that json_dumps wrote, whole
Complete(text) == Len(text) = 3 /\ text[1] = Piece("{") /\ text[3] = Piece("}")

\* the loop with the sense of wait inverted
loop_cond_inverted(q, w) == Len(q) # 0 /\ ~w

\* the condition of the while loop of _update_screen
loop_cond(q, w) == Len(q) # 0 /\ w

\* update(wait): _engine.get_changes() is evaluated first
UpdateCall(w) ==
    /\ pc = "idle"
    /\ frame < MaxFrames
    /\ get_changes
    /\ HistDrain
    /\ wait' = w
    /\ frame' = frame + 1
    /\ slept' = FALSE
    /\ pc' = "update_screen"
    /\ UNCHANGED <<sprites, texts, sounds, camera>>
    /\ nwrites' = 0
    /\ nreads' = 0
    /\ readFresh' = FALSE
    /\ UNCHANGED <<sprite_txt, input_txt, queue, wbuf, wpos, raw_input, input, lost, hostSeen>>
    /\ UNCHANGED <<inFresh, raised>>

\* _update_screen: if changes: queue = _read('sprite.txt')
UpdateScreen ==
    /\ pc = "update_screen"
    /\ IF Len(changes) # 0
       THEN queue' = sprite_txt /\ pc' = "poll"
       ELSE UNCHANGED queue /\ pc' = "get_input"
    /\ UNCHANGED <<progvars, changes, histvars, gpc, extvars>>
    /\ UNCHANGED <<sprite_txt, input_txt, wait, wbuf, wpos, raw_input, input, frame,
                   slept, lost, hostSeen, callvars>>

\* the loop gives up after one sleep and writes
Poll_gives_up ==
    /\ pc = "poll"
    /\ IF loop_cond(queue, wait) /\ ~slept
       THEN queue' = sprite_txt /\ slept' = TRUE /\ pc' = "poll"
       ELSE UNCHANGED <<queue, slept>> /\ pc' = "write_open"
    /\ UNCHANGED <<progvars, changes, histvars, gpc, extvars>>
    /\ UNCHANGED <<sprite_txt, input_txt, wait, wbuf, wpos, raw_input, input, frame,
                   lost, hostSeen, callvars>>

\* the loop sleeps but does not read sprite.txt again
Poll_no_reread ==
    /\ pc = "poll"
    /\ IF loop_cond(queue, wait)
       THEN UNCHANGED queue /\ slept' = TRUE /\ pc' = "poll"
       ELSE UNCHANGED <<queue, slept>> /\ pc' = "write_open"
    /\ UNCHANGED <<progvars, changes, histvars, gpc, extvars>>
    /\ UNCHANGED <<sprite_txt, input_txt, wait, wbuf, wpos, raw_input, input, frame,
                   lost, hostSeen, callvars>>

\* while queue != '' and wait: sleep, read again
Poll ==
    /\ pc = "poll"
    /\ IF loop_cond(queue, wait)
       THEN queue' = sprite_txt /\ slept' = TRUE /\ pc' = "poll"
       ELSE UNCHANGED <<queue, slept>> /\ pc' = "write_open"
    /\ UNCHANGED <<progvars, changes, histvars, gpc, extvars>>
    /\ UNCHANGED <<sprite_txt, input_txt, wait, wbuf, wpos, raw_input, input, frame,
                   lost, hostSeen, callvars>>

\* _write('sprite.txt', changes): open(filename, 'w') cuts the file to nothing
WriteOpen ==
    /\ pc = "write_open"
    /\ sprite_txt' = <<>>
    /\ lost' = IF Len(sprite_txt) # 0
               THEN lost \cup {[frame |-> frame, wait |-> wait]} ELSE lost
    /\ wbuf' = changes
    /\ wpos' = 0
    /\ pc' = "write_data"
    /\ UNCHANGED <<progvars, changes, histvars, gpc, extvars>>
    /\ nwrites' = nwrites + 1
    /\ UNCHANGED <<input_txt, wait, queue, raw_input, input, frame, slept, hostSeen>>
    /\ UNCHANGED <<nreads, readFresh, inFresh, raised>>

\* _write returns after the first write, the rest of the text still to come
WriteData_returns_early(k) ==
    /\ pc = "write_data"
    /\ k \in 1..(Len(wbuf) - wpos)
    /\ sprite_txt' = WriteAt(sprite_txt, wpos, SubSeq(wbuf, wpos + 1, wpos + k))
    /\ wpos' = wpos + k
    /\ pc' = "get_input"
    /\ UNCHANGED <<progvars, changes, histvars, gpc, extvars>>
    /\ UNCHANGED <<input_txt, wait, queue, wbuf, raw_input, input, frame, slept,
                   lost, hostSeen, callvars>>

\* file.write(message) and the close that flushes it: the text reaches the
\* file in one or more writes; a reader in between finds a part of it
WriteData(k) ==
    /\ pc = "write_data"
    /\ k \in 1..(Len(wbuf) - wpos)
    /\ sprite_txt' = WriteAt(sprite_txt, wpos, SubSeq(wbuf, wpos + 1, wpos + k))
    /\ wpos' = wpos + k
    /\ pc' = IF wpos + k = Len(wbuf) THEN "get_input" ELSE "write_data"
    /\ UNCHANGED <<progvars, changes, histvars, gpc, extvars>>
    /\ UNCHANGED <<input_txt, wait, queue, wbuf, raw_input, input, frame, slept,
                   lost, hostSeen, callvars>>

\* _get_input: raw_input = _read('input.txt')
InputRead ==
    /\ pc = "get_input"
    /\ raw_input' = input_txt
    /\ pc' = "input_clear"
    /\ UNCHANGED <<progvars, changes, histvars, gpc, extvars>>
    /\ nreads' = nreads + 1
    /\ readFresh' = inFresh
    /\ UNCHANGED <<sprite_txt, input_txt, wait, queue, wbuf, wpos, input, frame,
                   slept, lost, hostSeen>>
    /\ UNCHANGED <<nwrites, inFresh, raised>>

\* _get_input without its _write('input.txt', '')
InputClear_keeps_file ==
    /\ pc = "input_clear"
    /\ UNCHANGED input_txt
    /\ pc' = "input_parse"
    /\ inFresh' = FALSE
    /\ UNCHANGED <<progvars, changes, histvars, gpc, extvars>>
    /\ UNCHANGED <<sprite_txt, wait, queue, wbuf, wpos, raw_input, input, frame,
                   slept, lost, hostSeen>>
    /\ UNCHANGED <<nwrites, nreads, readFresh, raised>>

\* _write('input.txt', '')
InputClear ==
    /\ pc = "input_clear"
    /\ input_txt' = <<>>
    /\ pc' = "input_parse"
    /\ UNCHANGED <<progvars, changes, histvars, gpc, extvars>>
    /\ inFresh' = FALSE
    /\ UNCHANGED <<sprite_txt, wait, queue, wbuf, wpos, raw_input, input, frame,
                   slept, lost, hostSeen>>
    /\ UNCHANGED <<nwrites, nreads, readFresh, raised>>

\* a text json.loads rejects is answered with the default
InputReturn_default_on_failure ==
    /\ pc = "input_parse"
    /\ raised' = "none"
    /\ input' = IF Len(raw_input) # 0 /\ Complete(raw_input)
                THEN json_body(raw_input) ELSE NoInput
    /\ pc' = "idle"
    /\ changes' = <<>>
    /\ UNCHANGED <<progvars, histvars, gpc, extvars>>
    /\ UNCHANGED <<sprite_txt, input_txt, wait, queue, wbuf, wpos, raw_input, frame,
                   slept, lost, hostSeen>>
    /\ UNCHANGED <<nwrites, nreads, readFresh, inFresh>>

\* if raw_input: json.loads(raw_input), else the default; update() returns
\* the input, or json.loads raises and update() ends with the parse failure
\* (the game gets no input: what it holds is what an earlier call returned)
InputReturn ==
    /\ pc = "input_parse"
    /\ IF Len(raw_input) # 0 /\ ~Complete(raw_input)
       THEN raised' = "parse" /\ UNCHANGED input
       ELSE /\ raised' = "none"
            /\ input' = IF Len(raw_input) # 0 THEN json_body(raw_input) ELSE NoInput
    /\ pc' = "idle"
    /\ changes' = <<>>
    /\ UNCHANGED <<progvars, histvars, gpc, extvars>>
    /\ UNCHANGED <<sprite_txt, input_txt, wait, queue, wbuf, wpos, raw_input, frame,
                   slept, lost, hostSeen>>
    /\ UNCHANGED <<nwrites, nreads, readFresh, inFresh>>

\* the host: it reads sprite.txt and, having found a text, empties the file
HostConsume ==
    /\ Len(sprite_txt) # 0
    /\ hostSeen' = sprite_txt
    /\ sprite_txt' = <<>>
    /\ UNCHANGED <<progvars, changes, histvars, gpc, extvars>>
    /\ UNCHANGED <<input_txt, pc, wait, queue, wbuf, wpos, raw_input, input, frame,
                   slept, lost, callvars>>

\* the host: it writes the keys pressed to input.txt
HostInput(keys) ==
    /\ input_txt' = json_dumps([key_presses |-> keys, clicks |-> <<>>])
    /\ input_txt' # input_txt
    /\ UNCHANGED <<progvars, changes, histvars, gpc, extvars>>
    /\ inFresh' = TRUE
    /\ UNCHANGED <<sprite_txt, pc, wait, queue, wbuf, wpos, raw_input, input, frame,
                   slept, lost, hostSeen>>
    /\ UNCHANGED <<nwrites, nreads, readFresh, raised>>

\* the host (or anything else that writes the file): a text json.loads
\* rejects, here a payload cut after its opening brace
HostGarbage ==
    /\ input_txt' = <<Piece("{")>>
    /\ input_txt' # input_txt
    /\ inFresh' = TRUE
    /\ UNCHANGED <<progvars, changes, histvars, gpc, extvars>>
    /\ UNCHANGED <<sprite_txt, pc, wait, queue, wbuf, wpos, raw_input, input, frame,
                   slept, lost, hostSeen>>
    /\ UNCHANGED <<nwrites, nreads, readFresh, raised>>

\* the places of _update_screen where sprite.txt is opened, read or written
FlushIO ==
    \/ pc = "update_screen" /\ Len(changes) # 0
    \/ pc = "poll" /\ loop_cond(queue, wait)
    \/ pc \in {"write_open", "write_data"}

\* the failure is raised, and on its way out of update() input.txt is emptied
SpriteTxtFails_then_clears ==
    /\ FlushIO
    /\ raised' = "io"
    /\ pc' = "idle"
    /\ changes' = <<>>
    /\ input_txt' = <<>>
    /\ nreads' = nreads + 1
    /\ inFresh' = FALSE
    /\ UNCHANGED <<progvars, histvars, gpc, extvars>>
    /\ UNCHANGED <<sprite_txt, wait, queue, wbuf, wpos, raw_input, input, frame,
                   slept, lost, hostSeen>>
    /\ UNCHANGED <<nwrites, readFresh>>

\* open(), file.read() or file.write() on sprite.txt raises: nothing in
\* _update_screen or update() catches it, so update() ends there
SpriteTxtFails ==
    /\ FlushIO
    /\ raised' = "io"
    /\ pc' = "idle"
    /\ changes' = <<>>
    /\ UNCHANGED <<progvars, histvars, gpc, extvars>>
    /\ UNCHANGED <<sprite_txt, input_txt, wait, queue, wbuf, wpos, raw_input, input,
                   frame, slept, lost, hostSeen>>
    /\ UNCHANGED <<nwrites, nreads, readFresh, inFresh>>

\* the game: a sprite at (0,0), x = 5, x = 5 again, y = 3, update(), and then
\* a loop that moves the sprite and calls update() with either value of wait
GameNewSprite ==
    /\ pc = "idle" /\ gpc = 0
    /\ NewSprite(0)
    /\ gpc' = 1
    /\ UNCHANGED <<syncvars, host, extvars>>

GameSetX ==
    /\ pc = "idle" /\ gpc \in {1, 2}
    /\ SetSprite(1, "x", 5)
    /\ gpc' = gpc + 1
    /\ UNCHANGED <<syncvars, host, extvars>>

GameSetY ==
    /\ pc = "idle" /\ gpc = 3
    /\ SetSprite(1, "y", 3)
    /\ gpc' = 4
    /\ UNCHANGED <<syncvars, host, extvars>>

GameFirstUpdate ==
    /\ gpc = 4
    /\ UpdateCall(TRUE)
    /\ gpc' = 5
    /\ UNCHANGED <<host, extvars>>

GameMove(val) ==
    /\ pc = "idle" /\ gpc = 5
    /\ SetSprite(1, "x", val)
    /\ UNCHANGED <<gpc, syncvars, host, extvars>>

GameUpdate(w) ==
    /\ gpc = 5
    /\ UpdateCall(w)
    /\ UNCHANGED <<gpc, host, extvars>>

NextSync ==
    \/ GameNewSprite
    \/ GameSetX
    \/ GameSetY
    \/ GameFirstUpdate
    \/ \E val \in Vals : GameMove(val)
    \/ \E w \in BOOLEAN : GameUpdate(w)
    \/ UpdateScreen
    \/ Poll
    \/ WriteOpen
    \/ \E k \in 1..3 : WriteData(k)
    \/ InputRead
    \/ InputClear
    \/ InputReturn
    \/ HostConsume
    \/ HostInput(<<0>>)

SpecSync == Init /\ [][NextSync]_vars

\* a step of the update() in progress
UpdateStep ==
    \/ UpdateScreen
    \/ Poll
    \/ WriteOpen
    \/ \E k \in 1..3 : WriteData(k)
    \/ InputRead
    \/ InputClear
    \/ InputReturn

\* the Python process runs: an update() that can take a step takes one. A
\* poll that finds sprite.txt as it was changes nothing and is no step. The
\* host is under no obligation.
SpecLive == Init /\ [][NextSync]_vars /\ WF_vars(UpdateStep)

\* the game that, after its first update(), only calls update() again, over a
\* transport that can fail and a host that can write a text that is no JSON
NextFail ==
    \/ GameNewSprite
    \/ GameSetX
    \/ GameSetY
    \/ GameFirstUpdate
    \/ \E w \in BOOLEAN : GameUpdate(w)
    \/ UpdateScreen
    \/ Poll
    \/ WriteOpen
    \/ \E k \in 1..3 : WriteData(k)
    \/ InputRead
    \/ InputClear
    \/ InputReturn
    \/ HostConsume
    \/ HostInput(<<0>>)
    \/ HostGarbage
    \/ SpriteTxtFails

SpecFail == Init /\ [][NextFail]_vars

\* ---------------------------------------------------------------- claims
Snapshot == json_body(changes)

LedgerEmpty ==
    /\ Len(image_changes) = 0
    /\ Len(sound_changes) = 0
    /\ DOMAIN sprite_changes = {}
    /\ DOMAIN text_changes = {}
    /\ DOMAIN channel_changes = {}
    /\ DOMAIN camera_changes = {}

PayloadEmpty(c) ==
    /\ Len(c.image_changes) = 0
    /\ Len(c.sound_changes) = 0
    /\ c.sprite_changes = {}
    /\ c.text_changes = {}
    /\ c.channel_changes = {}
    /\ DOMAIN c.camera_changes = {}

IdKey(kind) ==
    CASE kind = "sprite" -> "sprite_id"
      [] kind = "text" -> "text_id"
      [] kind = "channel" -> "channel_id"

ProxyOf(kind, idx) ==
    CASE kind = "sprite" -> sprites[idx]
      [] kind = "text" -> texts[idx]
      [] kind = "channel" -> sounds[idx]
      [] kind = "camera" -> camera

Category(c, kind) ==
    CASE kind = "sprite" -> c.sprite_changes
      [] kind = "text" -> c.text_changes
      [] kind = "channel" -> c.channel_changes

\* a proxy's __dict__ under the names the ledger uses
LedgerView(p) ==
    [n \in {LedgerName(k) : k \in DOMAIN p} |->
        p[CHOOSE k \in DOMAIN p : LedgerName(k) = n]]

IdsIncrease(seq, idkey) ==
    /\ Len(seq) >= 1 => seq[1][idkey] = 0
    /\ \A i, j \in 1..Len(seq) : i < j => seq[i][idkey] < seq[j][idkey]

\* C1: every proxy gets an id greater than the ids given before to proxies of
\* its kind, counting from 0, so no two proxies of a kind share an id, also
\* when a drain came between the constructions.
C1_IdsNeverReused ==
    /\ IdsIncrease(sprites, "sprite_id")
    /\ IdsIncrease(texts, "text_id")
    /\ IdsIncrease(sounds, "channel_id")

\* C2: writing to an attribute the value it stores (the step the history marks
\* "noop") changes neither the ledger nor any stored field, whatever was
\* drained before.
C2_EqualWriteIsNoop == [][lastOp'.op = "noop" => UNCHANGED progvars]_vars

\* an equal write made when nothing was pending: a drain lies between it and
\* the write that stored the value
C2_Witness == lastOp.op = "noop" /\ LedgerEmpty

\* C3: a drain leaves every category of the ledger empty, and a drain that
\* follows a drain directly returns a payload with every category empty.
C3_DrainResets ==
    [][lastOp'.op \in Drains =>
          /\ LedgerEmpty'
          /\ lastOp.op \in Drains => PayloadEmpty(Snapshot')]_vars

C3_Witness == lastOp.op = "drain_again" /\ PayloadEmpty(Snapshot)

\* the writes made since the drain before are in the payload, under the id of
\* their proxy and with the value the proxy stores
Delivered(c, ow) ==
    \A o \in ow :
        LET p == ProxyOf(o[1], o[2])
            n == LedgerName(o[3])
        IN IF o[1] = "camera"
           THEN n \in DOMAIN c.camera_changes /\ c.camera_changes[n] = p[o[3]]
           ELSE \E r \in Category(c, o[1]) :
                    /\ r[IdKey(o[1])] = p[IdKey(o[1])]
                    /\ n \in DOMAIN r
                    /\ r[n] = p[o[3]]

\* the payload holds nothing but the writes made since the drain before
NotReplayed(c, ow) ==
    /\ \A kind \in {"sprite", "text", "channel"} : \A r \in Category(c, kind) :
           \A n \in DOMAIN r \ {IdKey(kind)} :
               \E o \in ow :
                   /\ o[1] = kind
                   /\ ProxyOf(kind, o[2])[IdKey(kind)] = r[IdKey(kind)]
                   /\ LedgerName(o[3]) = n
                   /\ ProxyOf(kind, o[2])[o[3]] = r[n]
    /\ \A n \in DOMAIN c.camera_changes : <<"camera", 0, n>> \in ow

\* C4: every change recorded between two drains is in the payload of the next
\* drain and in no later one.
C4_ExactlyOnce ==
    lastOp.op \in Drains =>
        Delivered(Snapshot, lastOp.owed) /\ NotReplayed(Snapshot, lastOp.owed)

\* the record the payload holds for the proxy created last
FreshRecords ==
    {r \in Category(Snapshot, lastOp.fresh.kind) :
        r[IdKey(lastOp.fresh.kind)]
            = ProxyOf(lastOp.fresh.kind, lastOp.fresh.idx)[IdKey(lastOp.fresh.kind)]}

FreshDrained == lastOp.op \in Drains /\ lastOp.fresh.kind # "none"

\* C5 as stated: after a creation and N writes of which M change the stored
\* value, the payload holds exactly M field entries for the object, and its id.
C5_ExactlyMEntries ==
    FreshDrained =>
        \E r \in FreshRecords :
            /\ FreshRecords = {r}
            /\ IdKey(lastOp.fresh.kind) \in DOMAIN r
            /\ Cardinality(DOMAIN r \ {IdKey(lastOp.fresh.kind)}) = lastOp.fresh.m

\* C5 as amended: after a creation and N writes to the proxy, the payload
\* holds for the object one record with its id and one entry for every
\* attribute the proxy stores, each with the stored value, whatever M is.
C5_AllFieldsEntries ==
    FreshDrained =>
        FreshRecords = {LedgerView(ProxyOf(lastOp.fresh.kind, lastOp.fresh.idx))}

C5_Witness == FreshDrained /\ lastOp.fresh.kind = "sprite" /\ lastOp.fresh.m = 2

\* C7: after each drain a host that applied every payload in order holds, for
\* every proxy ever created, the values the proxy stores.
C7_HostReconstructs ==
    lastOp.op \in Drains =>
        /\ \A kind \in {"sprite", "text", "channel"} :
               \A i \in 1..Len(CASE kind = "sprite" -> sprites
                                 [] kind = "text" -> texts
                                 [] kind = "channel" -> sounds) :
                   LET p == ProxyOf(kind, i)
                       hk == CASE kind = "sprite" -> host.sprite
                               [] kind = "text" -> host.text
                               [] kind = "channel" -> host.channel
                   IN /\ p[IdKey(kind)] \in DOMAIN hk
                      /\ hk[p[IdKey(kind)]] = LedgerView(p)
        /\ host.camera = camera

\* the first update() of the game of SpecSync is in progress: changes is the
\* payload it drained
FirstUpdateRuns == frame = 1 /\ pc # "idle"

\* the first update() has returned and the game has done nothing since
FirstUpdateReturned == frame = 1 /\ pc = "idle" /\ lastOp.op \in Drains

\* C6 as stated: in a fresh process, after Sprite at (0,0), x = 5, x = 5,
\* y = 3, update() produces a payload with one sprite record that carries
\* sprite_id 0, x = 5, y = 3, with empty asset lists and empty lists of the
\* other object changes; after update() the ledger is empty.
C6_EndToEnd ==
    /\ FirstUpdateRuns =>
           /\ \E r \in Snapshot.sprite_changes :
                  /\ Snapshot.sprite_changes = {r}
                  /\ r["sprite_id"] = 0 /\ r["x"] = 5 /\ r["y"] = 3
           /\ Len(Snapshot.image_changes) = 0
           /\ Len(Snapshot.sound_changes) = 0
           /\ Snapshot.text_changes = {}
           /\ Snapshot.channel_changes = {}
    /\ FirstUpdateReturned => LedgerEmpty

\* C6 as amended: the payload has that one sprite record (the creation record,
\* with x = 5 and y = 3), empty asset lists and empty channel_changes, but
\* text_changes holds the creation record of the print buffer (text_id 0) and
\* camera_changes the camera's initial x, y, size and angle; after update()
\* the ledger is empty.
C6_EndToEndWithModuleState ==
    /\ FirstUpdateRuns =>
           /\ \E r \in Snapshot.sprite_changes :
                  /\ Snapshot.sprite_changes = {r}
                  /\ r = LedgerView(sprites[1])
                  /\ r["sprite_id"] = 0 /\ r["x"] = 5 /\ r["y"] = 3
           /\ Len(Snapshot.image_changes) = 0
           /\ Len(Snapshot.sound_changes) = 0
           /\ Snapshot.text_changes = {LedgerView(texts[1])}
           /\ Snapshot.camera_changes = camera
           /\ DOMAIN camera = {"x", "y", "size", "angle"}
           /\ Snapshot.channel_changes = {}
    /\ FirstUpdateReturned => LedgerEmpty

C6_Witness == FirstUpdateReturned /\ LedgerEmpty /\ gpc = 5

\* C8: update(wait=True) opens sprite.txt for writing only after it read the
\* file as empty, and with a host that only empties the file the file is
\* still empty then: nothing the host has not read is overwritten.
C8_WaitWritesOnEmpty ==
    (pc = "write_open" /\ wait) => (Len(queue) = 0 /\ Len(sprite_txt) = 0)

\* update(wait=True) found the file busy, slept, and now writes
C8_Witness == pc = "write_open" /\ wait /\ slept

\* C9 as stated: no update(), whatever wait is, overwrites a payload the host
\* has not read.
C9_NeverOverwrites == lost = {}

\* C9 as amended: a payload the host has not read is overwritten only by an
\* update(wait=False); update(wait=True) never overwrites one.
C9_OverwriteOnlyWithoutWait == \A l \in lost : ~l.wait

\* an update(wait=False) has overwritten a payload, and an update(wait=True)
\* that had to sleep is writing
C9_Witness == lost # {} /\ pc = "write_data" /\ wait /\ slept

\* C10: the host never reads a half-written payload: what it reads from
\* sprite.txt is a complete payload.
C10_NoHalfWrittenRead == Len(hostSeen) = 0 \/ Complete(hostSeen)

\* an update() is in progress and has not yet opened sprite.txt for writing
NotYetWritten == pc \in {"update_screen", "poll", "write_open"}

\* C11: update() writes to sprite.txt only if the drained payload is
\* non-empty: an update() whose drain found no pending change in any category
\* neither polls nor opens sprite.txt for writing.
C11_EmptyPayloadNotWritten ==
    (pc \in {"poll", "write_open", "write_data"}) => ~PayloadEmpty(Snapshot)

\* C12: within update() the ledger is cleared only after the payload was
\* sent: while the payload is not yet written (update() still polls, or was
\* ended by an I/O failure on sprite.txt before it wrote) the changes that
\* were pending are still held in the ledger.
C12_LedgerHeldUntilSent ==
    /\ (NotYetWritten /\ lastOp.owed # {}) => ~LedgerEmpty
    /\ (pc = "idle" /\ raised = "io" /\ nwrites = 0 /\ lastOp.op \in Drains
           /\ lastOp.owed # {}) => ~LedgerEmpty

\* the snapshots the host of the model writes to input.txt
HostSnapshots == {[key_presses |-> <<0>>, clicks |-> <<>>]}

\* an update() has returned (it did not raise) and none is in progress
Returned == frame > 0 /\ pc = "idle" /\ raised = "none"

\* C13 as stated: update() does not return while input.txt is empty: what it
\* read from input.txt was not empty, and it returns the snapshot the host
\* wrote.
C13_BlocksUntilInput ==
    Returned => (Len(raw_input) # 0 /\ input \in HostSnapshots)

\* C13 as amended: update() does not wait for input: it reads input.txt once;
\* if the host wrote nothing since the last read it returns the default
\* {key_presses: [], clicks: []} at once, and otherwise the snapshot it
\* returns is one the host wrote.
C13_ReadsOnceWithDefault ==
    Returned =>
        /\ nreads = 1
        /\ IF readFresh THEN input \in HostSnapshots
           ELSE input = [key_presses |-> <<>>, clicks |-> <<>>]

\* a second update() returned the default: it found input.txt empty
C13_Witness == Returned /\ frame = 2 /\ ~readFresh /\ Len(raw_input) = 0

\* the phase of the frame synchronizer
Phase ==
    CASE pc = "idle" -> "IDLE"
      [] pc \in {"update_screen", "poll", "write_open", "write_data"} -> "FLUSH_PENDING"
      [] pc \in {"get_input", "input_clear", "input_parse"} -> "AWAIT_INPUT"

\* C14: every update() goes IDLE -> FLUSH_PENDING -> AWAIT_INPUT -> IDLE in
\* that order; input.txt is read only after the write of sprite.txt of the
\* same call is complete; the ledger is drained once, on entry, and not
\* touched again before the call returns; sprite.txt is opened for writing at
\* most once per call; a call starts only when none is in progress.
C14_PhasesInOrder ==
    [][/\ Phase' # Phase =>
              <<Phase, Phase'>> \in {<<"IDLE", "FLUSH_PENDING">>,
                                     <<"FLUSH_PENDING", "AWAIT_INPUT">>,
                                     <<"AWAIT_INPUT", "IDLE">>}
       /\ nreads' > nreads =>
              /\ Phase' = "AWAIT_INPUT"
              /\ nreads' = 1
              /\ nwrites = 1 => (wbuf = changes /\ wpos = Len(wbuf))
       /\ nwrites' <= 1
       /\ Phase # "IDLE" => UNCHANGED progvars
       /\ (changes' # changes /\ changes' # <<>>) =>
              (Phase = "IDLE" /\ Phase' = "FLUSH_PENDING")
       /\ frame' # frame => (Phase = "IDLE" /\ Phase' = "FLUSH_PENDING")]_vars

\* two calls have run through all phases, the second with a poll-wait
C14_Witness == Returned /\ frame = 2 /\ nwrites = 1 /\ nreads = 1 /\ slept

\* C15: if the host empties sprite.txt whenever it stays non-empty, every
\* update(wait=True) returns; an update(wait=False) returns whatever the host
\* does, and it never sleeps.
C15_UpdateReturns ==
    /\ WF_vars(HostConsume) => ((pc # "idle" /\ wait) ~> (pc = "idle"))
    /\ (pc # "idle" /\ ~wait) ~> (pc = "idle")
    /\ [](~wait => ~slept)

\* an update(wait=True) that had to sleep has returned
C15_Witness == Returned /\ wait /\ slept /\ nwrites = 1 /\ frame = MaxFrames

\* update() has not yet got past the poll loop of _update_screen
BeforeWrite == pc \in {"update_screen", "poll"}

\* C16: a host that never consumes is not surfaced as an error: if sprite.txt
\* stays non-empty for ever, an update(wait=True) that has not yet written
\* stays in the poll loop for ever: it neither returns nor raises nor writes.
C16_StalledHostHangs ==
    []((BeforeWrite /\ wait /\ [](Len(sprite_txt) # 0)) =>
           [](BeforeWrite /\ nwrites = 0 /\ raised = "none"))

\* an update(wait=True) sleeps on a sprite.txt the host has not emptied
C16_Witness ==
    pc = "poll" /\ wait /\ slept /\ Len(queue) # 0 /\ Len(sprite_txt) # 0 /\ nwrites = 0

\* C17: a read of an empty input.txt returns {key_presses: [], clicks: []};
\* a read of a non-empty one returns the decoded snapshot and leaves the file
\* empty (it stays empty until the host writes again); so a read that follows
\* a read with no host write in between returns the default.
C17_InputConsumed ==
    /\ ~inFresh => Len(input_txt) = 0
    /\ Returned =>
           /\ Len(raw_input) = 0 => input = [key_presses |-> <<>>, clicks |-> <<>>]
           /\ Len(raw_input) # 0 => (input = json_body(raw_input) /\ input \in HostSnapshots)
           /\ ~readFresh => input = [key_presses |-> <<>>, clicks |-> <<>>]
    /\ (pc = "input_parse" /\ ~readFresh) => Len(raw_input) = 0

\* the call before returned a snapshot of the host (the game still holds it);
\* this call has read input.txt with no host write since and found nothing
C17_Witness ==
    /\ pc = "input_parse" /\ frame >= 2
    /\ input \in HostSnapshots
    /\ ~readFresh /\ Len(raw_input) = 0 /\ Len(input_txt) = 0

\* the step in which json.loads raises
ParseRaises == pc = "input_parse" /\ pc' = "idle" /\ raised' = "parse"

\* C18: a text in input.txt that does not parse makes update() raise the
\* parse failure, with no default given to the game; input.txt was already
\* emptied when the failure is raised, so the text is consumed and the next
\* read (with no host write in between) returns the default.
C18_ParseFailureConsumes ==
    [][/\ (pc = "input_parse" /\ pc' = "idle" /\ Len(raw_input) # 0 /\ ~Complete(raw_input))
              => (raised' = "parse" /\ UNCHANGED input)
       /\ ParseRaises => (~inFresh => Len(input_txt) = 0)
       /\ (pc = "input_parse" /\ pc' = "idle" /\ raised = "parse" /\ ~readFresh)
              => (raised' = "none" /\ input' = [key_presses |-> <<>>, clicks |-> <<>>])]_vars

\* the update() after one that raised a parse failure has read input.txt,
\* with no host write since the failure, and found it empty
C18_Witness ==
    /\ pc = "input_parse" /\ raised = "parse"
    /\ ~readFresh /\ Len(raw_input) = 0 /\ Len(input_txt) = 0

\* C19: an I/O failure on sprite.txt ends update() at once: the only way out
\* of _update_screen other than into _get_input is the raised failure, after
\* which nothing is retried, and the failing update() has neither read nor
\* emptied input.txt.
C19_IOFailurePropagates ==
    [][/\ (Phase = "FLUSH_PENDING" /\ Phase' = "IDLE") =>
              /\ raised' = "io"
              /\ UNCHANGED <<input_txt, raw_input, input, sprite_txt, nwrites>>
       /\ (pc' = "idle" /\ raised' = "io") => (nreads' = 0 /\ nwrites' <= 1)]_vars

\* an update() was ended by an I/O failure and input.txt still holds what the
\* host wrote
C19_Witness == pc = "idle" /\ raised = "io" /\ nreads = 0 /\ inFresh /\ Len(input_txt) # 0

\* every record of an id-keyed category holds its id, the key it is stored under
KeyedByOwnId(led, idkey) ==
    \A k \in DOMAIN led : idkey \in DOMAIN led[k] /\ led[k][idkey] = k

\* the proxies of seq2 that are new or store a field they did not store in
\* seq1 have, in led2, a record under their id that carries the id and lists
\* the fields written with the values stored
WritersRecorded(seq1, seq2, led2, idkey) ==
    \A i \in 1..Len(seq2) :
        LET p == seq2[i]
            written == {n \in DOMAIN p \ {idkey} :
                           i > Len(seq1) \/ seq1[i][n] # p[n]}
        IN written # {} =>
               /\ p[idkey] \in DOMAIN led2
               /\ idkey \in DOMAIN led2[p[idkey]]
               /\ led2[p[idkey]][idkey] = p[idkey]
               /\ \A n \in written :
                      /\ LedgerName(n) \in DOMAIN led2[p[idkey]]
                      /\ led2[p[idkey]][LedgerName(n)] = p[n]

\* C20: every record of sprite_changes, text_changes and channel_changes, in
\* the ledger and in every drained payload, holds its id key, equal to the
\* key the ledger stores it under; and a write by a proxy goes to a record
\* that carries the id of that proxy; for any constructions, writes (writes
\* to the id attribute among them) and drains.
C20_RecordsCarryId ==
    /\ [](/\ KeyedByOwnId(sprite_changes, "sprite_id")
          /\ KeyedByOwnId(text_changes, "text_id")
          /\ KeyedByOwnId(channel_changes, "channel_id")
          /\ lastOp.op \in Drains =>
                 /\ \A r \in Snapshot.sprite_changes : "sprite_id" \in DOMAIN r
                 /\ \A r \in Snapshot.text_changes : "text_id" \in DOMAIN r
                 /\ \A r \in Snapshot.channel_changes : "channel_id" \in DOMAIN r)
    /\ [][/\ WritersRecorded(sprites, sprites', sprite_changes', "sprite_id")
          /\ WritersRecorded(texts, texts', text_changes', "text_id")
          /\ WritersRecorded(sounds, sounds', channel_changes', "channel_id")
          /\ lastOp'.op \in Drains =>
                 /\ Snapshot'.sprite_changes = DictValues(sprite_changes)
                 /\ Snapshot'.text_changes = DictValues(text_changes)
                 /\ Snapshot'.channel_changes = DictValues(channel_changes)]_vars

\* a sprite whose id the game changed from 0 to 1 has written a field, and
\* the drained payload holds its record under id 1
C20_Witness ==
    /\ lastOp.op \in Drains
    /\ Len(sprites) = 1 /\ sprites[1]["sprite_id"] = 1
    /\ \E r \in Snapshot.sprite_changes : r["sprite_id"] = 1 /\ r["x"] = sprites[1]["x"]

\* the attributes a proxy of a kind has besides its id
KindFields(kind) ==
    CASE kind = "sprite" -> {"image_id", "x", "y", "z", "size", "angle", "flip_h", "flip_v"}
      [] kind = "channel" -> {"sound_id", "playmode", "volume", "pitch", "note"}
      [] kind = "text" -> {"text", "width", "height", "x", "y", "font_size", "font", "angle",
                           "font_color", "background_color", "border_color"}

\* the category of the ledger that holds the records of a kind
LedgerOf(kind) ==
    CASE kind = "sprite" -> sprite_changes
      [] kind = "text" -> text_changes
      [] kind = "channel" -> channel_changes

\* a proxy was constructed, no write has changed it and nothing was drained since
JustConstructed == fresh.kind # "none" /\ fresh.m = 0

\* C21: right after the construction of a Sprite, Sound or Text, before any
\* drain, the ledger holds under the proxy's id a record with every field of
\* the kind and the constructor's value, the fields left at their defaults
\* among them.
C21_CreationRecordComplete ==
    JustConstructed =>
        LET p == ProxyOf(fresh.kind, fresh.idx)
            id == p[IdKey(fresh.kind)]
        IN /\ id \in DOMAIN LedgerOf(fresh.kind)
           /\ DOMAIN LedgerOf(fresh.kind)[id] = KindFields(fresh.kind) \cup {IdKey(fresh.kind)}
           /\ LedgerOf(fresh.kind)[id] = LedgerView(p)
           /\ fresh.kind = "sprite" =>
                  /\ p["y"] = 0 /\ p["z"] = 0 /\ p["size"] = 1 /\ p["angle"] = 0
                  /\ p["flip_h"] = 0 /\ p["flip_v"] = 0

\* a second sprite was constructed after a drain and got the id 0 again
C21_Witness ==
    /\ JustConstructed /\ fresh.kind = "sprite" /\ fresh.idx = 2
    /\ sprites[2]["sprite_id"] = 0

\* list indexing: lst[i]
ListGet(lst, i) == lst[ListPos(lst, i)]

\* the id key of the events of a registry
LatestAgrees(kind, lst) ==
    \A id \in DOMAIN latest[kind] :
        ListHas(lst, id) /\ ListGet(lst, id) = latest[kind][id]

\* C22: for any appends and index assignments on an ImageList or SoundList:
\* an append gives the new file the id that is the number of appends before
\* it; each append or assignment adds exactly one event, with that id and
\* filename, to the ledger; and for every id the filename of its latest
\* event is the registry's current entry at that index.
C22_AssetRegistry ==
    /\ [](LatestAgrees("image", images) /\ LatestAgrees("sound", soundfiles))
    /\ [][/\ lastOp'.op \in {"append", "setitem"} =>
                 Len(image_changes') + Len(sound_changes')
                     = Len(image_changes) + Len(sound_changes) + 1
          /\ (lastOp'.op = "append" /\ prog = "images") =>
                 image_changes'[Len(image_changes')]
                     = [image_id |-> Len(images), filename |-> images'[Len(images')]]
          /\ (lastOp'.op = "append" /\ prog = "sounds") =>
                 sound_changes'[Len(sound_changes')]
                     = [sound_id |-> Len(soundfiles), filename |-> soundfiles'[Len(soundfiles')]]]_vars

\* the id attribute of every proxy of a kind stays what it was
IdKept(old, new, key) ==
    \A i \in DOMAIN old \cap DOMAIN new : new[i][key] = old[i][key]

\* C23: no operation on a Sprite, Text or Sound, an attribute write to
\* sprite_id, text_id or channel_id included, changes the id the proxy
\* was constructed with.
C23_IdImmutable ==
    [][/\ IdKept(sprites, sprites', "sprite_id")
       /\ IdKept(texts, texts', "text_id")
       /\ IdKept(sounds, sounds', "channel_id")]_vars

\* no pending record and no pending field of a ledger category went away
Kept(old, new) ==
    \A id \in DOMAIN old : id \in DOMAIN new /\ DOMAIN old[id] \subseteq DOMAIN new[id]

\* what is pending for a proxy: the record under its id
Pending(led, p, idkey) ==
    IF p[idkey] \in DOMAIN led THEN led[p[idkey]] ELSE EmptyDict

\* the pending records of the proxies of a kind that existed before the step
PendingKept(old, led, led2, idkey) ==
    \A i \in 1..Len(old) : Pending(led2, old[i], idkey) = Pending(led, old[i], idkey)

Constructed ==
    Len(sprites') + Len(texts') + Len(sounds') > Len(sprites) + Len(texts) + Len(sounds)

\* C24: only a drain removes entries from the ledger: a construction or an
\* attribute write deletes no pending record and no pending field, and a
\* construction leaves the pending records of all existing proxies as
\* they were.
C24_OnlyDrainRemoves ==
    [][lastOp'.op \notin Drains =>
         /\ Kept(sprite_changes, sprite_changes')
         /\ Kept(text_changes, text_changes')
         /\ Kept(channel_changes, channel_changes')
         /\ DOMAIN camera_changes \subseteq DOMAIN camera_changes'
         /\ Len(image_changes') >= Len(image_changes)
         /\ Len(sound_changes') >= Len(sound_changes)
         /\ Constructed =>
               /\ PendingKept(sprites, sprite_changes, sprite_changes', "sprite_id")
               /\ PendingKept(texts, text_changes, text_changes', "text_id")
               /\ PendingKept(sounds, channel_changes, channel_changes', "channel_id")
               /\ camera_changes' = camera_changes]_vars

\* the same (field, value) pairs
SameFields(a, b) == DOMAIN a = DOMAIN b /\ \A n \in DOMAIN a : a[n] = b[n]

\* the same (id, field, value) triples, for records that are not empty
SameTuples(a, b) ==
    /\ DOMAIN a = DOMAIN b
    /\ \A id \in DOMAIN a : SameFields(a[id], b[id])

SameEvents(a, b) == Len(a) = Len(b) /\ \A i \in 1..Len(a) : SameFields(a[i], b[i])

\* what the host decodes from a payload that was written in the order ord
Decoded(payload, ord) == json_decode(json_encode(payload, ord))

\* C25: decoding the payload a drain wrote gives exactly the (kind, id,
\* field, value) tuples that were pending in the ledger at the drain, in
\* whatever order the fields and the objects were written.
C25_RoundTrip ==
    [][lastOp'.op \in Drains =>
         \A ord \in Orders : \A dec \in {Decoded(Snapshot', ord)} :
            /\ SameTuples(ById(dec.sprite_changes, "sprite_id"), sprite_changes)
            /\ SameTuples(ById(dec.text_changes, "text_id"), text_changes)
            /\ SameTuples(ById(dec.channel_changes, "channel_id"), channel_changes)
            /\ SameFields(dec.camera_changes, camera_changes)
            /\ SameEvents(dec.image_changes, image_changes)
            /\ SameEvents(dec.sound_changes, sound_changes)]_vars

\* a drain of two sprites, a text and the camera
C25_Witness ==
    /\ lastOp.op \in Drains
    /\ Len(changes) = 3
    /\ Cardinality(Snapshot.sprite_changes) = 2
    /\ Snapshot.text_changes # {}
    /\ DOMAIN Snapshot.camera_changes # {}

\* one pass through the loop body
BodyStep == gpc = 12 /\ gpc' = 13

\* C26: in the sample game loops a frame whose input snapshot holds key
\* code 7 sets the loop's flag running to false.
C26_Key7Quits ==
    [][(BodyStep /\ Has(input.key_presses, 7)) => ~running']_vars

\* C26, as the programs have it: run.py ends its loop on key 6 and on no
\* other key; game.py toggles paused on key 7 and never ends its loop.
C26_Key6QuitsKey7Pauses ==
    [][/\ (BodyStep /\ prog = "run") =>
             /\ running' = ~Has(input.key_presses, 6)
             /\ paused' = paused
       /\ (BodyStep /\ prog = "game") =>
             /\ running'
             /\ paused' = (paused # Has(input.key_presses, 7))
       /\ gpc' = 14 => (prog = "run" /\ ~running)]_vars

\* game.py has handled a frame with key 7: it is paused and goes on
C26_Witness ==
    /\ gpc = 13
    /\ Has(input.key_presses, 7)
    /\ prog = "game" /\ paused /\ running

\* the parameters of Camera.__init__ as fields
CameraParams(x, y, z, size, angle) ==
    [x |-> x, y |-> y, z |-> z, size |-> size, angle |-> angle]

\* C27: after Camera(x, y, z, size, angle) the camera stores x, y, z, size
\* and angle with the values supplied (for the module's camera: the
\* defaults), and each of them is pending in camera_changes.
C27_CameraJournalsAll ==
    /\ \A x, y, z, size, angle \in Vals :
          \A st \in {Camera__init__(EmptyDict, x, y, z, size, angle)} :
             /\ SameFields(st.obj, CameraParams(x, y, z, size, angle))
             /\ SameFields(st.led, CameraParams(x, y, z, size, angle))
    /\ lastOp.op = "init" =>
          /\ SameFields(camera, CameraParams(0, 0, 0, 8, 0))
          /\ SameFields(camera_changes, CameraParams(0, 0, 0, 8, 0))

\* the entries of a payload for the x of a sprite
EntriesX(payload, p) ==
    {r \in payload.sprite_changes : r["sprite_id"] = p["sprite_id"] /\ "x" \in DOMAIN r}

\* C28: when the x of a sprite was changed several times between two
\* drains, the next payload holds exactly one entry for it, with the value
\* written last, which is the value the sprite stores at the drain; also
\* when that is the value x had at the previous drain.
C28_LastWriteWins ==
    [][lastOp'.op \in Drains =>
         \A i \in 1..Len(sprites) :
            nchg[i].n >= 2 =>
               /\ Cardinality(EntriesX(Snapshot', sprites[i])) = 1
               /\ \A r \in EntriesX(Snapshot', sprites[i]) : r["x"] = sprites[i]["x"]]_vars

\* _get_input empties input.txt
ClearStep == pc = "input_clear" /\ pc' = "input_parse"

\* C29: no input is lost or returned twice by the read-then-clear of
\* input.txt, however the host's write falls between the two steps: the
\* text _get_input wipes is the text it has read, so a snapshot the host
\* wrote is returned by the call that wipes it, and (C17) by no later call.
C29_NoInputLost ==
    [][ClearStep => input_txt = raw_input]_vars

\* the print buffer is shown: font and background with alpha 128
Shown ==
    /\ texts[1]["_font_color"].a = 128
    /\ texts[1]["_background_color"].a = 128

\* C30: after any sequence of print calls the text of the print buffer has
\* at most 32 lines (MaxLines here), namely the most recent 32 lines of
\* everything printed so far, in print order; and each print call leaves
\* the buffer shown, whatever hide_print and show_print calls came before.
C30_PrintBuffer ==
    /\ Len(texts[1]["text"]) <= MaxLines
    /\ Len(printed) > 0 => texts[1]["text"] = LastLines(printed, MaxLines)
    /\ lastOp.op = "print" => Shown

====
